---- MODULE Spec2Model ----
(***************************************************************************)
(* Model of archived<int> (src/archived.h): a chain of commits with lazy,  *)
(* path-compressing diff aggregation, driven by a caller that keeps some   *)
(* of the versions it is handed, as the test program in the same file does.*)
(*                                                                         *)
(* A commit lives at an address (a natural number, handed out by nextId    *)
(* and never reused, so that a reference to a destroyed commit stays       *)
(* recognisable).  An iterator is the address of a commit, or Null for a   *)
(* value-initialised iterator.                                             *)
(***************************************************************************)
EXTENDS Integers, Sequences, FiniteSets, TLC

\* ---------------------------------------------------------------- bounds
MaxCommits == 5      \* commits allocated over the whole run
MaxVersions == 2     \* versions the caller holds at the same time

\* values the caller passes as initial value or increment
Deltas == {-1, 2}
\* what a read of memory that holds no commit may yield
Garbage == {0, 77}

Null == -1

VARIABLES storage_, commit, last_, nextId,
          version_vector, test_data, initial_value, res, pc

vars == <<storage_, commit, last_, nextId,
          version_vector, test_data, initial_value, res, pc>>

\* ------------------------------------------------------------ data types
\* archived<>::version: one iterator
version(archive_iterator) == [archive_iterator_ |-> archive_iterator]

\* archived<>::version::version(): the iterator is value-initialised
version_default == version(Null)

\* the archive object: the members plus the allocator's position
self == [storage_ |-> storage_, commit |-> commit, last_ |-> last_,
         nextId |-> nextId]

\* the members before the constructor body runs: storage_(), last_()
unconstructed == [storage_ |-> << >>,
                  commit |-> [i \in {} |-> [first |-> Null, second |-> 0]],
                  last_ |-> version_default,
                  nextId |-> 0]

\* storage_.begin()
begin(a) == a.storage_[1]

\* ------------------------------------------------------- private members
is_head_commit(c, iterator_to_commit) ==
  c[iterator_to_commit].first = iterator_to_commit

RECURSIVE compute_diff_to_current_nolink(_, _)
compute_diff_to_current_nolink(c, old) ==
  LET next == c[old].first IN
  IF ~ is_head_commit(c, next)
  THEN LET r  == compute_diff_to_current_nolink(c, next)
           c1 == r.commit
           c2 == [c1 EXCEPT ![old].second = @ + c1[next].second]
       IN  [commit |-> c2, calls |-> r.calls + 1]
  ELSE [commit |-> c, calls |-> 0]

RECURSIVE compute_diff_to_current_assign(_, _)
compute_diff_to_current_assign(c, old) ==
  LET next == c[old].first IN
  IF ~ is_head_commit(c, next)
  THEN LET r  == compute_diff_to_current_assign(c, next)
           c1 == r.commit
           c2 == [c1 EXCEPT ![old].second = c1[next].second]
           c3 == [c2 EXCEPT ![old].first = c2[next].first]
       IN  [commit |-> c3, calls |-> r.calls + 1]
  ELSE [commit |-> c, calls |-> 0]

RECURSIVE compute_diff_to_current_nosum(_, _)
compute_diff_to_current_nosum(c, old) ==
  LET next == c[old].first IN
  IF ~ is_head_commit(c, next)
  THEN LET r  == compute_diff_to_current_nosum(c, next)
           c1 == r.commit
           c3 == [c1 EXCEPT ![old].first = c1[next].first]
       IN  [commit |-> c3, calls |-> r.calls + 1]
  ELSE [commit |-> c, calls |-> 0]

RECURSIVE compute_diff_to_current_early(_, _)
compute_diff_to_current_early(c, old) ==
  LET next == c[old].first IN
  IF ~ is_head_commit(c, next)
  THEN LET c0 == [c EXCEPT ![old].second = @ + c[next].second]
           r  == compute_diff_to_current_early(c0, next)
           c1 == r.commit
           c3 == [c1 EXCEPT ![old].first = c1[next].first]
       IN  [commit |-> c3, calls |-> r.calls + 1]
  ELSE [commit |-> c, calls |-> 0]

\* The commits after compute_diff_to_current(old), and the number of
\* recursive calls it made.
RECURSIVE compute_diff_to_current(_, _)
compute_diff_to_current(c, old) ==
  LET next == c[old].first IN
  IF ~ is_head_commit(c, next)
  THEN LET r  == compute_diff_to_current(c, next)
           c1 == r.commit
           c2 == [c1 EXCEPT ![old].second = @ + c1[next].second]
           c3 == [c2 EXCEPT ![old].first = c2[next].first]
       IN  [commit |-> c3, calls |-> r.calls + 1]
  ELSE [commit |-> c, calls |-> 0]

create_head_commit_prev(a) ==
  LET head == a.nextId IN
  [a EXCEPT !.storage_ = <<head>> \o @,
            !.commit   = @ @@ (head :> [first |-> IF a.storage_ = << >>
                                                  THEN head ELSE a.storage_[1],
                                        second |-> 0]),
            !.nextId   = @ + 1]

create_head_commit(a) ==
  LET head == a.nextId IN
  [a EXCEPT !.storage_ = <<head>> \o @,
            !.commit   = @ @@ (head :> [first |-> head, second |-> 0]),
            !.nextId   = @ + 1]

\* ---------------------------------------------------- non-member function
\* diff_to_current on a version whose iterator refers to a stored commit
diff_to_current(a, old) ==
  LET archive_iterator == old.archive_iterator_
      r == compute_diff_to_current(a.commit, old.archive_iterator_)
  IN  [a     |-> [a EXCEPT !.commit = r.commit],
       ret   |-> r.commit[archive_iterator].second,
       calls |-> r.calls]

\* -------------------------------------------------------- public members
increment_by_stale(a, increment) ==
  LET old_head == begin(a)
      a1 == [a EXCEPT !.commit[old_head].second = increment]
      a2 == create_head_commit(a1)
      new_head == begin(a2)
      a3 == [a2 EXCEPT !.commit[old_head].first = new_head]
  IN  [a |-> a3, ret |-> version(old_head)]

increment_by_lost(a, increment) ==
  LET old_head == begin(a)
      a2 == create_head_commit(a)
      new_head == begin(a2)
      a3 == [a2 EXCEPT !.commit[old_head].first = new_head]
  IN  [a |-> a3, ret |-> version(new_head)]

increment_by_unlinked(a, increment) ==
  LET old_head == begin(a)
      a1 == [a EXCEPT !.commit[old_head].second = increment]
      a2 == create_head_commit(a1)
      new_head == begin(a2)
  IN  [a |-> a2, ret |-> version(new_head)]

increment_by_newhead(a, increment) ==
  LET a2 == create_head_commit(a)
      old_head == begin(a)
      new_head == begin(a2)
      a1 == [a2 EXCEPT !.commit[new_head].second = increment]
      a3 == [a1 EXCEPT !.commit[old_head].first = new_head]
  IN  [a |-> a3, ret |-> version(new_head)]

increment_by_backlink(a, increment) ==
  LET old_head == begin(a)
      a1 == [a EXCEPT !.commit[old_head].second = increment]
      a2 == create_head_commit(a1)
      new_head == begin(a2)
      a3 == [a2 EXCEPT !.commit[new_head].first = old_head]
  IN  [a |-> a3, ret |-> version(new_head)]

increment_by(a, increment) ==
  LET old_head == begin(a)
      a1 == [a EXCEPT !.commit[old_head].second = increment]
      a2 == create_head_commit(a1)
      new_head == begin(a2)
      a3 == [a2 EXCEPT !.commit[old_head].first = new_head]
  IN  [a |-> a3, ret |-> version(new_head)]

value(a) ==
  LET r == diff_to_current(a, a.last_) IN [a |-> r.a, ret |-> r.ret]

reset_unapplied(a, initial) ==
  LET a1 == [a EXCEPT !.storage_ = << >>,
                      !.commit = [i \in {} |-> [first |-> Null, second |-> 0]]]
      a2 == create_head_commit(a1)
      a3 == [a2 EXCEPT !.last_ = version(begin(a2))]
  IN  [a |-> a3, ret |-> version(begin(a3))]

reset_keeps(a, initial) ==
  LET a2 == create_head_commit(a)
      a3 == [a2 EXCEPT !.last_ = version(begin(a2))]
  IN  increment_by(a3, initial)

reset(a, initial) ==
  LET a1 == [a EXCEPT !.storage_ = << >>,
                      !.commit = [i \in {} |-> [first |-> Null, second |-> 0]]]
      a2 == create_head_commit(a1)
      a3 == [a2 EXCEPT !.last_ = version(begin(a2))]
  IN  increment_by(a3, initial)

clear_history_zero(a) ==
  LET v1 == value(a)
  IN  [a |-> reset(v1.a, 0).a, current_value |-> v1.ret]

\* The archive after clear_history() and its local current_value.  The
\* function has no return statement: what the caller receives is chosen in
\* the action ClearHistory.
clear_history(a) ==
  LET v1 == value(a)
      v2 == value(v1.a)
  IN  [a |-> reset(v2.a, v2.ret).a, current_value |-> v1.ret]

current_commits(a) ==
  LET a1 == create_head_commit(a) IN [a |-> a1, ret |-> version(begin(a1))]

current(a) == [a |-> a, ret |-> version(begin(a))]


\* ------------------------------------------------------------ the caller
\* the sum of s[i..Len(s)]
RECURSIVE SumFrom(_, _)
SumFrom(s, i) == IF i > Len(s) THEN 0 ELSE s[i] + SumFrom(s, i + 1)

\* final_value of the test program: the initial value plus all test data
final_value == initial_value + SumFrom(test_data, 1)

NoResult == [op |-> "construct", value_arg |-> 0, version_arg |-> version_default,
             value_ret |-> 0, version_ret |-> version_default, calls |-> 0]

\* version_vector after the caller has (or has not) stored a returned
\* version, together with the number of increments applied so far
push_back(new_version, applied, keep) ==
  IF keep
  THEN version_vector \cup {[version |-> new_version, captured_after |-> applied]}
  ELSE version_vector

CanKeep(keep) == keep => Cardinality(version_vector) < MaxVersions

Install(a) ==
  /\ storage_' = a.storage_
  /\ commit' = a.commit
  /\ last_' = a.last_
  /\ nextId' = a.nextId

\* archived<int> tested_object_1( initial_value )
Init ==
  \E v \in Deltas :
    LET a == reset(unconstructed, v).a IN
    /\ storage_ = a.storage_
    /\ commit = a.commit
    /\ last_ = a.last_
    /\ nextId = a.nextId
    /\ version_vector = {}
    /\ test_data = << >>
    /\ initial_value = v
    /\ res = NoResult
    /\ pc = "run"

IncrementBy(d, keep) ==
  /\ pc = "run"
  /\ nextId + 1 <= MaxCommits
  /\ CanKeep(keep)
  /\ LET r == increment_by(self, d) IN
     /\ Install(r.a)
     /\ test_data' = Append(test_data, d)
     /\ version_vector' = push_back(r.ret, Len(test_data) + 1, keep)
     /\ res' = [NoResult EXCEPT !.op = "increment_by", !.value_arg = d,
                                !.version_ret = r.ret]
  /\ UNCHANGED <<initial_value, pc>>

Value ==
  /\ pc = "run"
  /\ LET r == value(self) IN
     /\ Install(r.a)
     /\ res' = [NoResult EXCEPT !.op = "value", !.value_ret = r.ret]
  /\ UNCHANGED <<version_vector, test_data, initial_value, pc>>

Reset(v, keep) ==
  /\ pc = "run"
  /\ nextId + 2 <= MaxCommits
  /\ CanKeep(keep)
  /\ LET r == reset(self, v) IN
     /\ Install(r.a)
     /\ test_data' = << >>
     /\ initial_value' = v
     /\ version_vector' = push_back(r.ret, 0, keep)
     /\ res' = [NoResult EXCEPT !.op = "reset", !.value_arg = v,
                                !.version_ret = r.ret]
  /\ UNCHANGED pc

Current(keep) ==
  /\ pc = "run"
  /\ CanKeep(keep)
  /\ LET r == current(self) IN
     /\ Install(r.a)
     /\ version_vector' = push_back(r.ret, Len(test_data), keep)
     /\ res' = [NoResult EXCEPT !.op = "current", !.version_ret = r.ret]
  /\ UNCHANGED <<test_data, initial_value, pc>>

\* clear_history() flows off its end without a return statement: the caller
\* receives a version whose iterator holds any bit pattern (no commit, a
\* stored commit, a destroyed one), or the program does not survive.
ClearHistoryReturns ==
  /\ pc = "run"
  /\ nextId + 2 <= MaxCommits
  /\ LET r == clear_history(self) IN
     /\ Install(r.a)
     /\ \E it \in {Null} \cup (0 .. r.a.nextId - 1) :
          res' = [NoResult EXCEPT !.op = "clear_history",
                                  !.value_ret = r.current_value,
                                  !.version_ret = version(it)]
  /\ initial_value' = final_value
  /\ test_data' = << >>
  /\ UNCHANGED <<version_vector, pc>>

ClearHistoryCrashes ==
  /\ pc = "run"
  /\ nextId + 2 <= MaxCommits
  /\ LET r == clear_history(self) IN
     /\ Install(r.a)
     /\ res' = [NoResult EXCEPT !.op = "clear_history",
                                !.value_ret = r.current_value]
  /\ initial_value' = final_value
  /\ test_data' = << >>
  /\ pc' = "crashed"
  /\ UNCHANGED version_vector

\* the caller lets go of a version it holds
Forget(h) ==
  /\ pc = "run"
  /\ h \in version_vector
  /\ version_vector' = version_vector \ {h}
  /\ res' = [NoResult EXCEPT !.op = "forget"]
  /\ UNCHANGED <<storage_, commit, last_, nextId, test_data, initial_value, pc>>

\* the versions the caller can pass to diff_to_current: those it holds, the
\* one it was just handed by clear_history, and a default constructed one
Queryable ==
  {h.version : h \in version_vector} \cup {version_default}
    \cup (IF res.op = "clear_history" THEN {res.version_ret} ELSE {})

Refers(c, old) == old.archive_iterator_ \in DOMAIN c

\* diff_to_current( old ), old referring to a stored commit
DiffToCurrent(old) ==
  /\ pc = "run"
  /\ old \in Queryable
  /\ Refers(commit, old)
  /\ LET r == diff_to_current(self, old) IN
     /\ Install(r.a)
     /\ res' = [NoResult EXCEPT !.op = "diff_to_current", !.version_arg = old,
                                !.value_ret = r.ret, !.calls = r.calls]
  /\ UNCHANGED <<version_vector, test_data, initial_value, pc>>

\* diff_to_current( old ), old referring to no stored commit: the iterator is
\* dereferenced all the same.  The read faults, ...
DiffToCurrentFaults(old) ==
  /\ pc = "run"
  /\ old \in Queryable
  /\ ~ Refers(commit, old)
  /\ res' = [NoResult EXCEPT !.op = "diff_to_current", !.version_arg = old]
  /\ pc' = "crashed"
  /\ UNCHANGED <<storage_, commit, last_, nextId, version_vector, test_data,
                 initial_value>>

\* ... or it yields whatever the memory holds and that is returned, ...
DiffToCurrentGarbage(old, g) ==
  /\ pc = "run"
  /\ old \in Queryable
  /\ ~ Refers(commit, old)
  /\ res' = [NoResult EXCEPT !.op = "diff_to_current", !.version_arg = old,
                             !.value_ret = g]
  /\ UNCHANGED <<storage_, commit, last_, nextId, version_vector, test_data,
                 initial_value, pc>>

\* ... or the memory of a destroyed commit has been handed out again and now
\* holds the stored commit reused, which is then read and compressed.
DiffToCurrentReused(old, reused) ==
  /\ pc = "run"
  /\ old \in Queryable
  /\ ~ Refers(commit, old)
  /\ old.archive_iterator_ # Null
  /\ reused \in DOMAIN commit
  /\ LET r == diff_to_current(self, version(reused)) IN
     /\ Install(r.a)
     /\ res' = [NoResult EXCEPT !.op = "diff_to_current", !.version_arg = old,
                                !.value_ret = r.ret, !.calls = r.calls]
  /\ UNCHANGED <<version_vector, test_data, initial_value, pc>>

Addresses == 0 .. MaxCommits - 1
Versions == {version(it) : it \in Addresses \cup {Null}}

Next ==
  \/ \E d \in Deltas, keep \in BOOLEAN : IncrementBy(d, keep)
  \/ Value
  \/ \E v \in Deltas, keep \in BOOLEAN : Reset(v, keep)
  \/ \E keep \in BOOLEAN : Current(keep)
  \/ ClearHistoryReturns
  \/ ClearHistoryCrashes
  \/ \E h \in version_vector : Forget(h)
  \/ \E old \in Versions : DiffToCurrent(old)
  \/ \E old \in Versions : DiffToCurrentFaults(old)
  \/ \E old \in Versions, g \in Garbage : DiffToCurrentGarbage(old, g)
  \/ \E old \in Versions, reused \in Addresses : DiffToCurrentReused(old, reused)

Spec == Init /\ [][Next]_vars

TypeOK ==
  /\ pc \in {"run", "crashed"}
  /\ DOMAIN commit = {storage_[i] : i \in 1 .. Len(storage_)}
  /\ Cardinality(version_vector) <= MaxVersions
  /\ nextId <= MaxCommits


\* ------------------------------------------------------------ properties
Held(old) == \E h \in version_vector : h.version = old

\* C1: a version captured by current(), increment_by or reset after d1..di,
\* with no reset or clear_history since, has diff_to_current equal to
\* d(i+1) + ... + dk, both as the function computes it on the present chain
\* and as the last call returned it.
C1_SnapshotDiff ==
  /\ \A h \in version_vector :
       Refers(commit, h.version) =>
         diff_to_current(self, h.version).ret
           = SumFrom(test_data, h.captured_after + 1)
  /\ \A h \in version_vector :
       (res.op = "diff_to_current" /\ res.version_arg = h.version
          /\ Refers(commit, h.version)) =>
         res.value_ret = SumFrom(test_data, h.captured_after + 1)

C1_Witness ==
  /\ res.op = "diff_to_current"
  /\ res.calls >= 2
  /\ \E h \in version_vector :
       /\ h.version = res.version_arg
       /\ Refers(commit, h.version)
       /\ Len(test_data) - h.captured_after >= 3
       /\ res.value_ret = SumFrom(test_data, h.captured_after + 1)
       /\ res.value_ret # 0

\* C2: value() is the initial value plus the sum of all increments applied
\* since, in every state and as the last value() call returned it.
C2_ValueAccumulation ==
  /\ value(self).ret = final_value
  /\ res.op = "value" => res.value_ret = final_value

C2_Witness ==
  /\ res.op = "value"
  /\ Len(test_data) >= 3
  /\ res.value_ret = final_value
  /\ res.value_ret # initial_value

\* C3: a diff_to_current on a valid version directly after a diff_to_current
\* on the same version returns the same value, makes no recursive call and
\* rewrites no commit.
C3_IdempotentCompression ==
  [][(/\ res.op = "diff_to_current"
      /\ res'.op = "diff_to_current"
      /\ res'.version_arg = res.version_arg
      /\ Refers(commit, res.version_arg))
     => (/\ res'.value_ret = res.value_ret
         /\ res'.calls = 0
         /\ commit' = commit)]_vars

C3_Witness ==
  /\ res.op = "diff_to_current"
  /\ res.calls = 0
  /\ \E h \in version_vector :
       /\ h.version = res.version_arg
       /\ Refers(commit, h.version)
       /\ Len(test_data) - h.captured_after >= 2
       /\ res.value_ret = SumFrom(test_data, h.captured_after + 1)

\* C4: directly after reset(v2) value() is v2, and every later increment_by(d)
\* adds exactly d to value().
C4_ResetValue ==
  [][/\ res'.op = "reset" => value(self').ret = res'.value_arg
     /\ res'.op = "increment_by"
          => value(self').ret = value(self).ret + res'.value_arg]_vars

C4_Witness ==
  /\ res.op = "reset"
  /\ value(self).ret = res.value_arg
  /\ \E h \in version_vector : ~ Refers(commit, h.version)

\* C5: value() directly after clear_history() equals value() directly
\* before it.
C5_ClearHistoryKeepsValue ==
  [][res'.op = "clear_history" => value(self').ret = value(self).ret]_vars

C5_Witness ==
  /\ res.op = "clear_history"
  /\ pc = "run"
  /\ value(self).ret = res.value_ret
  /\ value(self).ret # 0
  /\ \E h \in version_vector : ~ Refers(commit, h.version)

\* C6: the version clear_history() returns references the new head, so its
\* diff_to_current is 0.
C6_ClearHistoryReturnsHead ==
  (res.op = "clear_history" /\ pc = "run") =>
    /\ res.version_ret = version(begin(self))
    /\ diff_to_current(self, res.version_ret).ret = 0

\* C7: diff_to_current on a version captured before a reset or clear_history
\* ends in an invalid-version error.
C7_StaleVersionDetected ==
  (res.op = "diff_to_current" /\ Held(res.version_arg)
     /\ ~ Refers(commit, res.version_arg)) =>
    pc = "invalid_version_error"

\* C8: diff_to_current on a default constructed version ends in an
\* invalid-version error.
C8_DefaultVersionDetected ==
  (res.op = "diff_to_current" /\ res.version_arg = version_default) =>
    pc = "invalid_version_error"

\* C9: the version returned by increment_by, reset or current() references
\* the head and its diff_to_current is 0; a held version references the head
\* for as long as no increment follows its capture.
C9_ReturnedVersionIsHead ==
  /\ res.op \in {"increment_by", "reset", "current"} =>
       /\ res.version_ret = version(begin(self))
       /\ is_head_commit(commit, res.version_ret.archive_iterator_)
       /\ diff_to_current(self, res.version_ret).ret = 0
  /\ \A h \in version_vector :
       (Refers(commit, h.version) /\ h.captured_after = Len(test_data)) =>
         h.version = version(begin(self))

C9_Witness ==
  /\ res.op = "increment_by"
  /\ Len(storage_) >= 4
  /\ res.version_ret = version(begin(self))
  /\ Held(res.version_ret)

\* C10: current() leaves value(), the stored commits with their deltas and
\* successors, and the diff of every held valid version unchanged.
C10_CurrentIsPure ==
  [][res'.op = "current" =>
       /\ storage_' = storage_
       /\ commit' = commit
       /\ last_' = last_
       /\ value(self').ret = value(self).ret
       /\ \A h \in version_vector :
            Refers(commit, h.version) =>
              /\ Refers(commit', h.version)
              /\ diff_to_current(self', h.version).ret
                   = diff_to_current(self, h.version).ret]_vars

C10_Witness ==
  /\ res.op = "current"
  /\ Len(storage_) >= 4
  /\ \E h \in version_vector :
       /\ Refers(commit, h.version)
       /\ ~ is_head_commit(commit, commit[h.version.archive_iterator_].first)
       /\ diff_to_current(self, h.version).ret # 0


\* ----------------------------------------------- the chain and its history
\* position of a stored commit in a storage (1 is the front)
PosIn(st, x) == CHOOSE p \in 1 .. Len(st) : st[p] = x
Pos(x) == PosIn(storage_, x)

\* number of commits pushed to the storage before x since it was last
\* cleared: push_front puts every new commit before all older ones
AgeIn(st, x) == Len(st) - PosIn(st, x)
Age(x) == AgeIn(storage_, x)

\* the control value at the time x was created: nothing for the first commit
\* of the chain, then the initial value plus the increments applied so far
total(x) == IF Age(x) = 0 THEN 0 ELSE final_value - SumFrom(test_data, Age(x))

\* the commits compute_diff_to_current( old ) passes through on its way down
RECURSIVE PathToHead(_, _)
PathToHead(c, old) ==
  IF is_head_commit(c, old) THEN {old} ELSE {old} \cup PathToHead(c, c[old].first)

\* the descent of compute_diff_to_current( old ): TRUE when the recursion
\* reaches a call that does not recurse within fuel recursive calls
RECURSIVE Descent(_, _, _)
Descent(c, old, fuel) ==
  LET next == c[old].first IN
  IF ~ is_head_commit(c, next)
  THEN fuel > 0 /\ Descent(c, next, fuel - 1)
  ELSE TRUE

\* C11: a diff_to_current or value() call, whatever it rewrites, leaves
\* value() and the diff_to_current of every held valid version unchanged.
C11_CompressionPreservesValues ==
  [][res'.op \in {"diff_to_current", "value"} =>
       /\ value(self').ret = value(self).ret
       /\ \A h \in version_vector :
            Refers(commit, h.version) =>
              /\ Refers(commit', h.version)
              /\ diff_to_current(self', h.version).ret
                   = diff_to_current(self, h.version).ret]_vars

C11_Witness ==
  /\ res.op = "diff_to_current"
  /\ res.calls >= 2
  /\ Refers(commit, res.version_arg)
  /\ \E h \in version_vector :
       /\ h.version # res.version_arg
       /\ Refers(commit, h.version)
       /\ Pos(h.version.archive_iterator_) < Pos(res.version_arg.archive_iterator_)
       /\ diff_to_current(self, h.version).ret # 0

\* C12: after diff_to_current(C) on a valid version (or value(), which
\* queries last_), every non-head commit that was on the successor path from
\* C to the head has the head as successor and, as delta, the sum of all
\* increments applied since it was created.
C12_CompressionPostcondition ==
  [][\A C \in DOMAIN commit :
       (\/ res'.op = "diff_to_current" /\ res'.version_arg = version(C)
        \/ res'.op = "value" /\ last_ = version(C)) =>
         \A x \in PathToHead(commit, C) :
           x # begin(self) =>
             /\ commit'[x].first = begin(self')
             /\ commit'[x].second = final_value' - total(x)']_vars

C12_Witness ==
  /\ res.op = "diff_to_current"
  /\ res.calls >= 2
  /\ Held(res.version_arg)
  /\ Refers(commit, res.version_arg)
  /\ commit[res.version_arg.archive_iterator_].first = begin(self)
  /\ commit[res.version_arg.archive_iterator_].second # 0

\* C13: storage_ is never empty, exactly one stored commit is its own
\* successor, and that commit is the front of storage_.
C13_UniqueHead ==
  /\ Len(storage_) >= 1
  /\ DOMAIN commit = {storage_[p] : p \in 1 .. Len(storage_)}
  /\ {x \in DOMAIN commit : is_head_commit(commit, x)} = {begin(self)}

C13_Witness ==
  /\ res.op = "increment_by"
  /\ Len(storage_) >= 4
  /\ is_head_commit(commit, begin(self))
  /\ \E x \in DOMAIN commit : Pos(x) > 2 /\ commit[x].first = storage_[2]

\* C14: from every stored commit the recursion of compute_diff_to_current
\* reaches its last call within as many recursive calls as there are commits
\* after the first two, and the call diff_to_current made took no more.
C14_Termination ==
  /\ \A x \in DOMAIN commit : Descent(commit, x, Len(storage_) - 2)
  /\ \A x \in DOMAIN commit :
       compute_diff_to_current(commit, x).calls <= Len(storage_) - 2
  /\ res.op = "diff_to_current" => res.calls <= Len(storage_) - 2

C14_Witness ==
  /\ res.op = "increment_by"
  /\ Len(storage_) >= 5
  /\ \E x \in DOMAIN commit :
       /\ Age(commit[x].first) > Age(x) + 1
       /\ ~ is_head_commit(commit, commit[x].first)
       /\ compute_diff_to_current(commit, x).calls >= 1

\* C15: the delta of the head commit is always 0, so increment_by would act
\* the same if it added the increment to the old head's delta instead of
\* assigning it.
C15_HeadDeltaZero ==
  /\ commit[begin(self)].second = 0
  /\ \A d \in Deltas :
       increment_by(self, d).a.commit[begin(self)].second
         = commit[begin(self)].second + d

C15_Witness ==
  /\ res.op = "diff_to_current"
  /\ res.calls >= 1
  /\ Len(storage_) >= 4
  /\ commit[begin(self)].second = 0

\* C16: increment_by(d) puts exactly one new commit at the front of storage_,
\* with delta 0 and itself as successor, gives the old head delta d and the
\* new commit as successor, and changes no other commit nor last_.
C16_IncrementFrame ==
  [][res'.op = "increment_by" =>
       LET old_head == begin(self)
           new_head == begin(self')
       IN  /\ new_head \notin DOMAIN commit
           /\ storage_' = <<new_head>> \o storage_
           /\ DOMAIN commit' = DOMAIN commit \cup {new_head}
           /\ commit'[new_head] = [first |-> new_head, second |-> 0]
           /\ commit'[old_head] = [first |-> new_head, second |-> res'.value_arg]
           /\ \A x \in DOMAIN commit \ {old_head} : commit'[x] = commit[x]
           /\ last_' = last_]_vars

C16_Witness ==
  /\ res.op = "increment_by"
  /\ Len(storage_) >= 5
  /\ commit[storage_[2]] = [first |-> begin(self), second |-> res.value_arg]
  /\ \E x \in DOMAIN commit :
       Age(commit[x].first) > Age(x) + 1 /\ commit[x].first # begin(self)

\* C17: storage_ holds 2 + n commits, n the number of increment_by calls
\* since the last construction, reset or clear_history; reset and
\* clear_history leave only a new origin (delta the new value, successor the
\* head) and head; diff_to_current, value and current keep storage_ as it is.
C17_ChainSize ==
  [][/\ Len(storage_) = 2 + Len(test_data)
     /\ Len(storage_') = 2 + Len(test_data')
     /\ Cardinality(DOMAIN commit') = Len(storage_')
     /\ res'.op \in {"reset", "clear_history"} =>
          /\ Len(storage_') = 2
          /\ DOMAIN commit' \cap DOMAIN commit = {}
          /\ last_' = version(storage_'[2])
          /\ commit'[storage_'[2]] = [first |-> storage_'[1],
                                      second |-> final_value']
          /\ commit'[storage_'[1]] = [first |-> storage_'[1], second |-> 0]
     /\ res'.op \in {"diff_to_current", "value", "current"} =>
          /\ storage_' = storage_
          /\ DOMAIN commit' = DOMAIN commit]_vars

C17_Witness ==
  /\ res.op = "clear_history"
  /\ Len(storage_) = 2
  /\ commit[storage_[2]].second # 0
  /\ \E h \in version_vector : ~ Refers(commit, h.version)

\* C18: the successor of every stored commit but the front is a stored commit
\* created later than itself, the front is its own successor, and no step
\* moves the successor of a commit that stays stored to an older commit.
C18_ForwardOnly ==
  [][/\ \A x \in DOMAIN commit' :
          /\ commit'[x].first \in DOMAIN commit'
          /\ IF x = begin(self')
             THEN commit'[x].first = x
             ELSE AgeIn(storage_', commit'[x].first) > AgeIn(storage_', x)
     /\ \A x \in DOMAIN commit \cap DOMAIN commit' :
          AgeIn(storage_', commit'[x].first) >= Age(commit[x].first)]_vars

C18_Witness ==
  /\ res.op = "diff_to_current"
  /\ res.calls >= 2
  /\ Refers(commit, res.version_arg)
  /\ Age(commit[res.version_arg.archive_iterator_].first)
       >= Age(res.version_arg.archive_iterator_) + 3

\* C19: for every stored commit c but the head, the delta of c is total(s)
\* minus total(c), s being the successor of c.
C19_WeightedEdge ==
  \A c \in DOMAIN commit :
    c # begin(self) =>
      commit[c].second = total(commit[c].first) - total(c)

C19_Witness ==
  /\ res.op = "increment_by"
  /\ \E c \in DOMAIN commit :
       /\ Age(commit[c].first) >= Age(c) + 2
       /\ commit[c].first # begin(self)
       /\ commit[c].second = total(commit[c].first) - total(c)
       /\ commit[c].second # 0

====
